---- MODULE Spec2Model ----
(***************************************************************************)
(* Strat scanner: candle classification and pattern detection              *)
(* (src/src/strat_logic.py), the scan coordinator (src/src/scanner.py) and *)
(* the worker loop that drives it (src/src/worker.py).                     *)
(*                                                                         *)
(* Prices are small naturals; dates are day numbers 1..MaxDay.  Python's   *)
(* None is "None" where the value is otherwise text or a record, and Unset *)
(* (-1) where it is otherwise a number.                                    *)
(***************************************************************************)
EXTENDS Integers, Sequences, FiniteSets, Bags, TLC

None == "None"
Unset == 0 - 1
\* float("nan"): a candle bound the provider answered as not-a-number.
NaN == 0 - 2
\* A value float() and int() raise ValueError or TypeError on (a non-numeric
\* string, a list).
Bad == 0 - 3

\* ------------------------------------------------------------------ bounds
MaxPrice == 4       \* highs and lows of the enumerated candles are 1..MaxPrice
MaxDay == 4         \* trading dates are 1..MaxDay
MaxCycles == 3      \* scan_once is started at most MaxCycles times
MaxCap == 2         \* MAX_SIGNALS_PER_SCAN is drawn from 1..MaxCap
MaxVolume == 2      \* candle volumes are None or 0..MaxVolume
MaxExtra == 3       \* volume series have up to VOLUME_LOOKBACK_DAYS + MaxExtra candles
MaxChain == 2       \* option chains have up to MaxChain contracts

\* ------------------------------------------------------------------ models.py
INSIDE == "1"
TWO_UP == "2U"
TWO_DOWN == "2D"
OUTSIDE == "3"
CandleType == {INSIDE, TWO_UP, TWO_DOWN, OUTSIDE}

\* Candle(timestamp, open, high, low, close, volume); the timestamp is the
\* candle's position in its (ascending) series.
Candle(o, h, l, c, v) == [open |-> o, high |-> h, low |-> l, close |-> c, volume |-> v]

\* StratSignal as detect_daily_*_signals construct it.  The option_* fields
\* start unset (None) and are filled by pick_option_for_signal.
StratSignal(symbol, direction, pattern_name, entry_level, stop_level, underlying_price) ==
    [symbol |-> symbol, direction |-> direction, pattern_name |-> pattern_name,
     timeframe |-> "1D", bias_timeframe |-> "1W",
     entry_level |-> entry_level, stop_level |-> stop_level, target_level |-> None,
     underlying_price |-> underlying_price,
     option_ticker |-> None, option_strike |-> Unset, option_expiration |-> Unset,
     option_type |-> None, option_bid |-> Unset, option_ask |-> Unset, option_iv |-> Unset]

\* ------------------------------------------------------------------ strat_logic.py
\* daily_candles[-k]
Back(s, k) == s[Len(s) + 1 - k]

\* Python truthiness of an Optional[float]: None and 0.0 are falsy.
Truthy(x) == x # Unset /\ x # 0

\* abs(x), max(a, b), min(a, b)
Abs(x) == IF x < 0 THEN 0 - x ELSE x
Max(a, b) == IF a > b THEN a ELSE b
Min(a, b) == IF a < b THEN a ELSE b

\* An Optional[float] result that is a quotient: None, or num / den (den > 0).
NoRatio == [defined |-> FALSE, num |-> 0, den |-> 1]
Ratio(num, den) == [defined |-> TRUE, num |-> num, den |-> den]

\* _calculate_risk_reward: None, or reward / risk.
calculate_risk_reward(direction, entry, stop, current_price) ==
    IF entry = Unset \/ stop = Unset \/ current_price = Unset THEN NoRatio
    ELSE LET risk == Abs(entry - stop)
             reward == IF direction = "CALL"
                       THEN Max(current_price, entry) - stop
                       ELSE entry - Min(current_price, entry)
         IN  IF risk <= 0 THEN NoRatio
             ELSE IF reward <= 0 THEN NoRatio
             ELSE Ratio(reward, risk)

VOLUME_LOOKBACK_DAYS == 20

\* sum(volumes)
RECURSIVE SumVolumes(_)
SumVolumes(candles) ==
    IF candles = << >> THEN 0 ELSE Head(candles).volume + SumVolumes(Tail(candles))

\* Mutant: the window is the last VOLUME_LOOKBACK_DAYS candles, the latest
\* one included (daily_candles[-VOLUME_LOOKBACK_DAYS:]).
calculate_volume_vs_avg_pct_with_today(daily_candles) ==
    IF Len(daily_candles) <= VOLUME_LOOKBACK_DAYS THEN NoRatio
    ELSE LET today == Back(daily_candles, 1)
             prior == SubSeq(daily_candles, Len(daily_candles) - VOLUME_LOOKBACK_DAYS + 1,
                             Len(daily_candles))
             total == SumVolumes(prior)
         IN  IF today.volume = Unset THEN NoRatio
             ELSE IF \E i \in 1..Len(prior) : prior[i].volume = Unset \/ prior[i].volume <= 0
             THEN NoRatio
             ELSE IF Len(prior) < VOLUME_LOOKBACK_DAYS THEN NoRatio
             ELSE IF total <= 0 THEN NoRatio
             ELSE Ratio((today.volume * Len(prior) - total) * 100, total)

\* _calculate_volume_vs_avg_pct: None, or ((today.volume - avg) / avg) * 100
\* with avg = sum(volumes) / len(volumes), kept as the quotient
\* (today.volume * len - sum) * 100 / sum.
calculate_volume_vs_avg_pct(daily_candles) ==
    IF Len(daily_candles) <= VOLUME_LOOKBACK_DAYS THEN NoRatio
    ELSE LET today == Back(daily_candles, 1)
             \* daily_candles[-(VOLUME_LOOKBACK_DAYS + 1) : -1]
             prior == SubSeq(daily_candles, Len(daily_candles) - VOLUME_LOOKBACK_DAYS,
                             Len(daily_candles) - 1)
             total == SumVolumes(prior)
         IN  IF today.volume = Unset THEN NoRatio
             ELSE IF \E i \in 1..Len(prior) : prior[i].volume = Unset \/ prior[i].volume <= 0
             THEN NoRatio
             ELSE IF Len(prior) < VOLUME_LOOKBACK_DAYS THEN NoRatio
             ELSE IF total <= 0 THEN NoRatio
             ELSE Ratio((today.volume * Len(prior) - total) * 100, total)

\* Python's float comparisons: every comparison with a NaN operand is False.
Lt(a, b) == a # NaN /\ b # NaN /\ a < b
Le(a, b) == a # NaN /\ b # NaN /\ a <= b
Gt(a, b) == a # NaN /\ b # NaN /\ a > b
Ge(a, b) == a # NaN /\ b # NaN /\ a >= b

\* Mutant: the OUTSIDE rule is tested before the INSIDE rule.
classify_return_outside_first(current, previous) ==
    IF Ge(current.high, previous.high) /\ Le(current.low, previous.low) THEN 2
    ELSE IF Le(current.high, previous.high) /\ Ge(current.low, previous.low) THEN 1
    ELSE LET took_high == Gt(current.high, previous.high)
             took_low == Lt(current.low, previous.low)
         IN  IF took_high /\ ~took_low THEN 3
             ELSE IF took_low /\ ~took_high THEN 4
             ELSE 5

\* classify_candle_type: which of its five return statements is executed
\* (1: line 71, 2: line 74, 3: line 80, 4: line 82, 5: the final one, line 84).
classify_return(current, previous) ==
    IF Le(current.high, previous.high) /\ Ge(current.low, previous.low) THEN 1
    ELSE IF Ge(current.high, previous.high) /\ Le(current.low, previous.low) THEN 2
    ELSE LET took_high == Gt(current.high, previous.high)
             took_low == Lt(current.low, previous.low)
         IN  IF took_high /\ ~took_low THEN 3
             ELSE IF took_low /\ ~took_high THEN 4
             ELSE 5

\* The value each return statement returns.
ReturnedType == << INSIDE, OUTSIDE, TWO_UP, TWO_DOWN, OUTSIDE >>

classify_candle_type(current, previous) == ReturnedType[classify_return(current, previous)]

get_weekly_bias(weekly_candles) ==
    IF Len(weekly_candles) = 0 THEN "neutral"
    ELSE LET current == Back(weekly_candles, 1)
         IN  IF Gt(current.close, current.open) THEN "up"
             ELSE IF Lt(current.close, current.open) THEN "down"
             ELSE "neutral"

\* Mutant: the 1-2-2 signals take their entry level from c2 instead of c1.
detect_daily_122_entry_from_c2(symbol, daily_candles, weekly_candles, underlying_price) ==
    IF Len(daily_candles) < 4 THEN << >>
    ELSE LET c0 == Back(daily_candles, 3)
             c1 == Back(daily_candles, 2)
             c2 == Back(daily_candles, 1)
             t0_type == classify_candle_type(c0, Back(daily_candles, 4))
             t1_type == classify_candle_type(c1, c0)
             weekly_bias == get_weekly_bias(weekly_candles)
             current_price == IF Truthy(underlying_price) THEN underlying_price ELSE c2.close
             bull == IF t0_type = TWO_UP /\ t1_type = INSIDE /\ weekly_bias = "up"
                        /\ Gt(c2.high, c1.high)
                     THEN << StratSignal(symbol, "CALL", "Daily 1-2U continuation",
                                         c2.high, c1.low, current_price) >>
                     ELSE << >>
             bear == IF t0_type = TWO_DOWN /\ t1_type = INSIDE /\ weekly_bias = "down"
                        /\ Lt(c2.low, c1.low)
                     THEN << StratSignal(symbol, "PUT", "Daily 1-2D continuation",
                                         c2.low, c1.high, current_price) >>
                     ELSE << >>
         IN  bull \o bear

detect_daily_122_signals(symbol, daily_candles, weekly_candles, underlying_price) ==
    IF Len(daily_candles) < 4 THEN << >>
    ELSE LET c0 == Back(daily_candles, 3)
             c1 == Back(daily_candles, 2)
             c2 == Back(daily_candles, 1)
             t0_type == classify_candle_type(c0, Back(daily_candles, 4))
             t1_type == classify_candle_type(c1, c0)
             weekly_bias == get_weekly_bias(weekly_candles)
             current_price == IF Truthy(underlying_price) THEN underlying_price ELSE c2.close
             bull == IF /\ t0_type = TWO_UP
                        /\ t1_type = INSIDE
                        /\ weekly_bias = "up"
                        /\ Gt(c2.high, c1.high)
                     THEN << StratSignal(symbol, "CALL", "Daily 1-2U continuation",
                                         c1.high, c1.low, current_price) >>
                     ELSE << >>
             bear == IF /\ t0_type = TWO_DOWN
                        /\ t1_type = INSIDE
                        /\ weekly_bias = "down"
                        /\ Lt(c2.low, c1.low)
                     THEN << StratSignal(symbol, "PUT", "Daily 1-2D continuation",
                                         c1.low, c1.high, current_price) >>
                     ELSE << >>
         IN  bull \o bear

\* Mutant: the 2-1-2 conditions do not test the weekly bias.
detect_daily_212_no_bias(symbol, daily_candles, weekly_candles, underlying_price) ==
    IF Len(daily_candles) < 4 THEN << >>
    ELSE LET c0 == Back(daily_candles, 3)
             c1 == Back(daily_candles, 2)
             c2 == Back(daily_candles, 1)
             t0_type == classify_candle_type(c0, Back(daily_candles, 4))
             t1_type == classify_candle_type(c1, c0)
             t2_type == classify_candle_type(c2, c1)
             weekly_bias == get_weekly_bias(weekly_candles)
             current_price == IF Truthy(underlying_price) THEN underlying_price ELSE c2.close
             bull == IF /\ t0_type = TWO_UP
                        /\ t1_type = INSIDE
                        /\ t2_type = TWO_UP
                        /\ Gt(c2.high, c0.high)
                     THEN << StratSignal(symbol, "CALL", "Daily 2-1-2 continuation",
                                         c2.high, c1.low, current_price) >>
                     ELSE << >>
             bear == IF /\ t0_type = TWO_DOWN
                        /\ t1_type = INSIDE
                        /\ t2_type = TWO_DOWN
                        /\ Lt(c2.low, c0.low)
                     THEN << StratSignal(symbol, "PUT", "Daily 2-1-2 continuation",
                                         c2.low, c1.high, current_price) >>
                     ELSE << >>
         IN  bull \o bear

detect_daily_212_signals(symbol, daily_candles, weekly_candles, underlying_price) ==
    IF Len(daily_candles) < 4 THEN << >>
    ELSE LET c0 == Back(daily_candles, 3)
             c1 == Back(daily_candles, 2)
             c2 == Back(daily_candles, 1)
             t0_type == classify_candle_type(c0, Back(daily_candles, 4))
             t1_type == classify_candle_type(c1, c0)
             t2_type == classify_candle_type(c2, c1)
             weekly_bias == get_weekly_bias(weekly_candles)
             current_price == IF Truthy(underlying_price) THEN underlying_price ELSE c2.close
             bull == IF /\ t0_type = TWO_UP
                        /\ t1_type = INSIDE
                        /\ t2_type = TWO_UP
                        /\ weekly_bias = "up"
                        /\ Gt(c2.high, c0.high)
                     THEN << StratSignal(symbol, "CALL", "Daily 2-1-2 continuation",
                                         c2.high, c1.low, current_price) >>
                     ELSE << >>
             bear == IF /\ t0_type = TWO_DOWN
                        /\ t1_type = INSIDE
                        /\ t2_type = TWO_DOWN
                        /\ weekly_bias = "down"
                        /\ Lt(c2.low, c0.low)
                     THEN << StratSignal(symbol, "PUT", "Daily 2-1-2 continuation",
                                         c2.low, c1.high, current_price) >>
                     ELSE << >>
         IN  bull \o bear

\* Mutant: the 2-1-2 signals are put before the 1-2-2 signals.
detect_daily_strat_212_first(symbol, daily_candles, weekly_candles, underlying_price) ==
    detect_daily_212_signals(symbol, daily_candles, weekly_candles, underlying_price)
        \o detect_daily_122_signals(symbol, daily_candles, weekly_candles, underlying_price)

detect_daily_strat_signals(symbol, daily_candles, weekly_candles, underlying_price) ==
    detect_daily_122_signals(symbol, daily_candles, weekly_candles, underlying_price)
        \o detect_daily_212_signals(symbol, daily_candles, weekly_candles, underlying_price)

\* ------------------------------------------------------------------ options_picker.py
\* now = datetime.utcnow().date(), as a day number.
UtcToday == 1
\* max_exp = now + timedelta(days=21)
MaxExpiryDays == 21

\* contract_type filter (lines 52-58).
TypeOk(contract, desired_type) ==
    contract.contract_type # None /\ contract.contract_type = desired_type

\* expiry filter (lines 65-75): _parse_expiration answers None for a value
\* that is no ISO date (Unset here).
ExpiryOk(contract) ==
    /\ contract.expiration_date # Unset
    /\ ~(contract.expiration_date < UtcToday
           \/ contract.expiration_date > UtcToday + MaxExpiryDays)

\* Mutant: a non-numeric strike is taken for a number instead of being caught.
StrikeParsesAnything(contract) == contract.strike_price # Unset

\* float(strike) succeeds (lines 85-91, 146-152).
StrikeParses(contract) == contract.strike_price # Unset /\ contract.strike_price # Bad

\* moneyness filter (lines 82-97): lower_call = price * 0.97, upper_put =
\* price * 1.03, compared in hundredths.
MoneynessOk(contract, desired_type, underlying_price) ==
    /\ StrikeParses(contract)
    /\ ~(desired_type = "call" /\ 100 * contract.strike_price < 97 * underlying_price)
    /\ ~(desired_type = "put" /\ 100 * contract.strike_price > 103 * underlying_price)

\* relaxed moneyness band (lines 141-155): price * 0.95 .. price * 1.05.
RelaxedMoneynessOk(contract, underlying_price) ==
    /\ StrikeParses(contract)
    /\ ~(100 * contract.strike_price < 95 * underlying_price
           \/ 100 * contract.strike_price > 105 * underlying_price)

\* int(open_interest or 0), 0 when it raises (lines 105-109).
ParsedOI(contract) ==
    IF contract.open_interest \in {Unset, Bad} THEN 0 ELSE contract.open_interest

\* float(x or 0)
OrZero(x) == IF x = Unset THEN 0 ELSE x

\* liquidity filter (lines 105-124 with 50 and 25, lines 157-176 with 10 and
\* 35): the spread test (ask - bid) / ask > pct / 100 in hundredths.
LiquidityOk(contract, min_oi, max_spread_pct) ==
    /\ ~(ParsedOI(contract) < min_oi)
    /\ contract.bid_price # Bad
    /\ contract.ask_price # Bad
    /\ ~(OrZero(contract.ask_price) <= 0)
    /\ ~(100 * (OrZero(contract.ask_price) - OrZero(contract.bid_price))
            > max_spread_pct * OrZero(contract.ask_price))

\* Mutant: the sort key is the days to expiration alone.
KeyBeforeDteOnly(a, b, entry_level) ==
    a.expiration_date - UtcToday < b.expiration_date - UtcToday

\* The sort key of line 192: (_parsed_dte, abs(_parsed_strike - entry_level)).
KeyBefore(a, b, entry_level) ==
    LET dte_a == a.expiration_date - UtcToday
        dte_b == b.expiration_date - UtcToday
        dist_a == Abs(a.strike_price - entry_level)
        dist_b == Abs(b.strike_price - entry_level)
    IN  dte_a < dte_b \/ (dte_a = dte_b /\ dist_a < dist_b)

\* list.sort(key=...): a stable sort, as insertion from the left, each element
\* put behind those that do not come after it.
RECURSIVE InsertByKey(_, _, _)
InsertByKey(x, sorted, entry_level) ==
    IF sorted = << >> THEN << x >>
    ELSE IF KeyBefore(x, Head(sorted), entry_level) THEN << x >> \o sorted
    ELSE << Head(sorted) >> \o InsertByKey(x, Tail(sorted), entry_level)

RECURSIVE SortByKey(_, _)
SortByKey(contracts, entry_level) ==
    IF contracts = << >> THEN << >>
    ELSE InsertByKey(contracts[Len(contracts)],
                     SortByKey(SubSeq(contracts, 1, Len(contracts) - 1), entry_level),
                     entry_level)

\* The contracts that pass the primary filters, in chain order (lines 51-129).
PrimaryFiltered(signal, options_chain) ==
    LET desired_type == IF signal.direction = "CALL" THEN "call" ELSE "put"
        Passes(c) == /\ TypeOk(c, desired_type)
                     /\ ExpiryOk(c)
                     /\ MoneynessOk(c, desired_type, signal.underlying_price)
                     /\ LiquidityOk(c, 50, 25)
    IN  SelectSeq(options_chain, Passes)

\* The contracts of after_expiry that pass the relaxed filters (lines 140-181).
RelaxedFiltered(signal, options_chain) ==
    LET desired_type == IF signal.direction = "CALL" THEN "call" ELSE "put"
        Passes(c) == /\ TypeOk(c, desired_type)
                     /\ ExpiryOk(c)
                     /\ RelaxedMoneynessOk(c, signal.underlying_price)
                     /\ LiquidityOk(c, 10, 35)
    IN  SelectSeq(options_chain, Passes)

\* Mutant: the relaxed pass replaces the primary result whenever it yields a
\* contract.
FilteredContractsRelaxedFirst(signal, options_chain) ==
    LET primary == PrimaryFiltered(signal, options_chain)
        relaxed == RelaxedFiltered(signal, options_chain)
    IN  IF relaxed # << >> THEN relaxed ELSE primary

\* filtered after the fallback (lines 135-183): the relaxed pass runs only when
\* the primary pass left nothing, and replaces it only when it yields a
\* contract.
FilteredContracts(signal, options_chain) ==
    LET primary == PrimaryFiltered(signal, options_chain)
        relaxed == RelaxedFiltered(signal, options_chain)
    IN  IF primary = << >> /\ relaxed # << >> THEN relaxed ELSE primary

\* The signal with the chosen contract attached (lines 199-210).
Attach(signal, chosen, desired_type, iv) ==
    [signal EXCEPT !.option_ticker = chosen.symbol,
                   !.option_strike = chosen.strike_price,
                   !.option_expiration = chosen.expiration_date,
                   !.option_type = desired_type,
                   !.option_bid = OrZero(chosen.bid_price),
                   !.option_ask = OrZero(chosen.ask_price),
                   !.option_iv = iv]

\* Mutant: filtered[0] is read without the test for an empty list (IndexError).
pick_option_unguarded(signal, options_chain) ==
    IF options_chain = << >> THEN [raised |-> FALSE, signal |-> signal]
    ELSE LET desired_type == IF signal.direction = "CALL" THEN "call" ELSE "put"
             filtered == FilteredContracts(signal, options_chain)
         IN  IF filtered = << >> THEN [raised |-> TRUE, signal |-> signal]
             ELSE LET chosen == SortByKey(filtered, signal.entry_level)[1]
                  IN  IF chosen.implied_vol = Bad
                      THEN [raised |-> TRUE,
                            signal |-> Attach(signal, chosen, desired_type, Unset)]
                      ELSE [raised |-> FALSE,
                            signal |-> Attach(signal, chosen, desired_type, chosen.implied_vol)]

\* pick_option_for_signal: [raised, signal].  float(implied_vol) of the chosen
\* contract raises on a non-numeric value, the fields before it already set.
pick_option_for_signal(signal, options_chain) ==
    IF options_chain = << >> THEN [raised |-> FALSE, signal |-> signal]
    ELSE LET desired_type == IF signal.direction = "CALL" THEN "call" ELSE "put"
             filtered == FilteredContracts(signal, options_chain)
         IN  IF filtered = << >> THEN [raised |-> FALSE, signal |-> signal]
             ELSE LET chosen == SortByKey(filtered, signal.entry_level)[1]
                  IN  IF chosen.implied_vol = Bad
                      THEN [raised |-> TRUE,
                            signal |-> Attach(signal, chosen, desired_type, Unset)]
                      ELSE [raised |-> FALSE,
                            signal |-> Attach(signal, chosen, desired_type, chosen.implied_vol)]

\* ------------------------------------------------------------------ inputs
\* The instruments of the model.
Symbols == {"A", "B"}

\* Candles whose high and low are 1..MaxPrice: open = low, close = high.
HL(h, l) == Candle(l, h, l, h, 1)
CandleSet == UNION {{HL(h, l) : l \in 1..h} : h \in 1..MaxPrice}

WeeklyUp == << Candle(1, 2, 1, 2, 1) >>
WeeklyDown == << Candle(2, 2, 1, 1, 1) >>
WeeklyFlat == << Candle(1, 2, 1, 1, 1) >>
WeeklySeries == {<< >>, WeeklyUp, WeeklyDown, WeeklyFlat}

\* What the data provider can answer for one instrument in one cycle
\* (get_stock_aggs_daily, get_stock_aggs_weekly, get_last_trade_price): a
\* provider failure is answered inside MassiveClient by [] or None.
NoData == [daily |-> << >>, weekly |-> << >>, last_price |-> Unset]
CallBoth == [daily |-> << HL(2, 1), HL(3, 2), HL(2, 2), HL(4, 3) >>, weekly |-> WeeklyUp, last_price |-> Unset]
Put122 == [daily |-> << HL(4, 3), HL(3, 2), HL(3, 2), HL(4, 1) >>, weekly |-> WeeklyDown, last_price |-> 2]
CallNoBias == [daily |-> CallBoth.daily, weekly |-> << >>, last_price |-> 4]
MarketData == {NoData, CallBoth, Put122, CallNoBias}

\* Option chains as the scanner sees them: [] (also the provider's answer on
\* failure), a chain pick_option_for_signal reads without raising, and a chain
\* with a record it raises on (a record that is no dict, a non-numeric
\* implied_vol of the chosen contract).
ChainKinds == {"empty", "wellformed", "raises"}

\* send_signal_alert: the message is posted ("sent"); the post fails and
\* send_telegram_message swallows the error ("endpoint_error"); or building the
\* alert raises before anything is posted ("send_raised").
SendOutcomes == {"sent", "endpoint_error", "send_raised"}

\* SCAN_TICKERS after splitting, stripping and upper-casing.
TickerLists == {<< "A", "B" >>, << "A", "A" >>}
CooldownChoices == {0, 1, 3}

\* ------------------------------------------------------------------ state
VARIABLES
    settings,                   \* Scanner.settings
    clock,                      \* the date in America/New_York when it was last read
    seen_signals,               \* Scanner._seen_signals
    current_seen_date,          \* Scanner._current_seen_date
    symbol_last_alert_date,     \* Scanner._symbol_last_alert_date
    pc,                         \* "sleep" | "tickers" | "signals"
    cycles,                     \* scan_once calls made by the worker loop
    escaped,                    \* the last scan_once call ended in an exception
    today,                      \* scan_once: today
    tickers,                    \* scan_once: the shuffled tickers still to visit
    signals,                    \* scan_once: the signals of ticker still to visit
    signals_alerted,            \* scan_once: signals_alerted
    errors,                     \* scan_once: errors
    symbols_alerted_this_scan,  \* scan_once: symbols_alerted_this_scan
    gate,                       \* what happened to the candidate signal decided last
    chain_fetches,              \* get_options_chain_snapshot calls in this cycle
    last_key,                   \* the key of the candidate signal decided last
    cycle_alerts,               \* the symbols alerted in this cycle, in order
    alert_log,                  \* bag of keys: the send_signal_alert calls that returned,
                                \* on the date of the last cycle
    dispatch,                   \* per symbol: the date of its last alert that returned and
                                \* the smallest number of days between two of them
    d_in,                       \* detector harness: [daily, weekly, price]
    d_out                       \* detector harness: [done, result]

scanner_vars == << seen_signals, current_seen_date, symbol_last_alert_date >>
cycle_vars == << today, tickers, signals, signals_alerted, errors,
                 symbols_alerted_this_scan, gate, chain_fetches, last_key, cycle_alerts >>
harness_vars == << d_in, d_out >>
history_vars == << alert_log, dispatch >>
vars == << settings, clock, scanner_vars, pc, cycles, escaped, cycle_vars, history_vars, harness_vars >>

\* ------------------------------------------------------------------ scanner.py
\* Scanner._signal_key: the fields are joined with ":"; the pattern names, the
\* directions, a float's text and an ISO date hold no ":", so the text is read
\* back from the right in one way only and the tuple stands for it.
SignalKey(signal, date) ==
    << signal.symbol, signal.pattern_name, signal.direction, signal.entry_level, date >>

\* random.shuffle(tickers): every order of the configured list.
Shuffles(list) ==
    {[i \in 1..Len(list) |-> list[p[i]]] : p \in Permutations(1..Len(list))}

\* Mutant: the cap test is strict.
CapReachedStrict(alerted) == alerted > settings.MAX_SIGNALS_PER_SCAN

\* signals_alerted >= self.settings.MAX_SIGNALS_PER_SCAN
CapReached(alerted) == alerted >= settings.MAX_SIGNALS_PER_SCAN

\* Mutant: the per-cycle symbol test is left out.
AlertedThisScanNever(symbol) == FALSE

\* symbol in symbols_alerted_this_scan
AlertedThisScan(symbol) == symbol \in symbols_alerted_this_scan

\* Mutant: the cooldown starts on the day after the alert.
InCooldownFromNextDay(symbol) ==
    LET cooldown_days == settings.ALERT_COOLDOWN_DAYS
        last_date == symbol_last_alert_date[symbol]
    IN  /\ cooldown_days > 0
        /\ last_date # Unset
        /\ (today - last_date) > 0
        /\ (today - last_date) < cooldown_days

\* Mutant: the cooldown ends one day early.
InCooldownShort(symbol) ==
    LET cooldown_days == settings.ALERT_COOLDOWN_DAYS
        last_date == symbol_last_alert_date[symbol]
    IN  /\ cooldown_days > 0
        /\ last_date # Unset
        /\ (today - last_date) < cooldown_days - 1

\* The cooldown test on self._symbol_last_alert_date.get(symbol).
InCooldown(symbol) ==
    LET cooldown_days == settings.ALERT_COOLDOWN_DAYS
        last_date == symbol_last_alert_date[symbol]
    IN  /\ cooldown_days > 0
        /\ last_date # Unset
        /\ (today - last_date) < cooldown_days

\* Mutant: the day-dedup test is left out.
SeenTodayNever(key) == FALSE

\* key in self._seen_signals
SeenToday(key) == key \in seen_signals

\* Mutant: the new date is recorded and the seen set is kept.
ResetSeenKeepsKeys(d) ==
    /\ seen_signals' = seen_signals
    /\ current_seen_date' = d

\* Mutant: the seen set is cleared at the start of every cycle.
ResetSeenAlways(d) ==
    /\ seen_signals' = {}
    /\ current_seen_date' = d

\* if self._current_seen_date != today: clear the set and record the date.
ResetSeenForDate(d) ==
    /\ seen_signals' = IF current_seen_date # d THEN {} ELSE seen_signals
    /\ current_seen_date' = d

\* Mutant: the key is not added to the seen set.
RecordAlertUnseen(key, symbol) ==
    /\ seen_signals' = seen_signals
    /\ signals_alerted' = signals_alerted + 1
    /\ symbol_last_alert_date' = [symbol_last_alert_date EXCEPT ![symbol] = today]
    /\ symbols_alerted_this_scan' = symbols_alerted_this_scan \cup {symbol}

\* Mutant: the symbol's last-alert date is not recorded.
RecordAlertUndated(key, symbol) ==
    /\ seen_signals' = seen_signals \cup {key}
    /\ signals_alerted' = signals_alerted + 1
    /\ symbol_last_alert_date' = symbol_last_alert_date
    /\ symbols_alerted_this_scan' = symbols_alerted_this_scan \cup {symbol}

\* The four records made after send_signal_alert has returned.
RecordAlert(key, symbol) ==
    /\ seen_signals' = seen_signals \cup {key}
    /\ signals_alerted' = signals_alerted + 1
    /\ symbol_last_alert_date' = [symbol_last_alert_date EXCEPT ![symbol] = today]
    /\ symbols_alerted_this_scan' = symbols_alerted_this_scan \cup {symbol}

\* Mutant: after the exception the signal loop goes on with the next signal.
TickerFailsKeepsSignals ==
    /\ errors' = errors + 1
    /\ signals' = IF signals = << >> THEN << >> ELSE Tail(signals)
    /\ pc' = IF signals = << >> \/ Tail(signals) = << >> THEN "tickers" ELSE "signals"

\* Mutant: the exception is not caught in the loop and ends the cycle.
TickerAborts ==
    /\ errors' = errors
    /\ signals' = << >>
    /\ pc' = "sleep"

\* except Exception: errors += 1; the for-ticker loop goes on with the next ticker.
TickerFails ==
    /\ errors' = errors + 1
    /\ signals' = << >>
    /\ pc' = "tickers"

\* No scan_once call is active.
NoFrame ==
    /\ today = Unset
    /\ tickers = << >>
    /\ signals = << >>
    /\ signals_alerted = 0
    /\ errors = 0
    /\ symbols_alerted_this_scan = {}
    /\ gate = "none"
    /\ chain_fetches = 0
    /\ last_key = << >>
    /\ cycle_alerts = << >>

\* scan_once returns: its locals are gone.
DropFrame ==
    /\ today' = Unset
    /\ tickers' = << >>
    /\ signals' = << >>
    /\ signals_alerted' = 0
    /\ errors' = 0
    /\ symbols_alerted_this_scan' = {}
    /\ gate' = "none"
    /\ chain_fetches' = 0
    /\ last_key' = << >>
    /\ cycle_alerts' = << >>

\* scan_once up to the ticker loop.  Reading ALERT_COOLDOWN_DAYS raises
\* AttributeError on a settings object that carries no such attribute (Unset).
ScanStart ==
    /\ pc = "sleep"
    /\ cycles < MaxCycles
    /\ settings.ALERT_COOLDOWN_DAYS # Unset
    /\ \E d \in clock..MaxDay, order \in Shuffles(settings.SCAN_TICKERS) :
          /\ clock' = d
          /\ today' = d
          /\ tickers' = order
          /\ ResetSeenForDate(d)
          /\ alert_log' = IF d # clock THEN EmptyBag ELSE alert_log
    /\ cycles' = cycles + 1
    /\ escaped' = FALSE
    /\ pc' = "tickers"
    /\ signals' = << >>
    /\ signals_alerted' = 0
    /\ errors' = 0
    /\ symbols_alerted_this_scan' = {}
    /\ gate' = "none"
    /\ chain_fetches' = 0
    /\ last_key' = << >>
    /\ cycle_alerts' = << >>
    /\ UNCHANGED << settings, symbol_last_alert_date, dispatch, harness_vars >>

\* Mutant: the exception is not caught by the worker loop and ends the process.
ScanStartRaisesUncaught ==
    /\ pc = "sleep"
    /\ cycles < MaxCycles
    /\ pc' = "terminated"
    /\ escaped' = TRUE
    /\ UNCHANGED << settings, clock, scanner_vars, cycles, cycle_vars, history_vars, harness_vars >>

\* scan_once raises before the ticker loop (the attribute read of line 51, the
\* zone lookup of line 54); main's except Exception catches it, logs and sleeps.
ScanStartRaises ==
    /\ pc = "sleep"
    /\ cycles < MaxCycles
    /\ cycles' = cycles + 1
    /\ escaped' = TRUE
    /\ UNCHANGED << settings, clock, scanner_vars, pc, cycle_vars, history_vars, harness_vars >>

\* One pass of the for-ticker loop up to the signal loop: the ticker is taken
\* from the list, its candles and price are fetched and the detector is run.
TickerBegin ==
    /\ pc = "tickers"
    /\ tickers # << >>
    /\ ~CapReached(signals_alerted)
    /\ tickers' = Tail(tickers)
    /\ \/ \* a call of the try body raises
          /\ TickerFails
          /\ gate' = "ticker_raised"
       \/ \E data \in MarketData :
             /\ gate' = "none"
             /\ IF Len(data.daily) < 4
                THEN UNCHANGED << signals, pc, errors >>
                ELSE LET last_price == IF data.last_price = Unset
                                       THEN Back(data.daily, 1).close
                                       ELSE data.last_price
                         found == detect_daily_strat_signals(Head(tickers), data.daily,
                                                             data.weekly, last_price)
                     IN  /\ signals' = found
                         /\ pc' = IF found = << >> THEN "tickers" ELSE "signals"
                         /\ UNCHANGED errors
    /\ UNCHANGED << settings, clock, scanner_vars, cycles, escaped, today, signals_alerted,
                    symbols_alerted_this_scan, chain_fetches, last_key, cycle_alerts,
                    history_vars, harness_vars >>

\* A signal is skipped (continue) or the signal loop is left (break).
SkipSignal(why, rest) ==
    /\ gate' = why
    /\ last_key' = SignalKey(Head(signals), today)
    /\ signals' = rest
    /\ pc' = IF rest = << >> THEN "tickers" ELSE "signals"
    /\ UNCHANGED << scanner_vars, signals_alerted, errors, symbols_alerted_this_scan,
                    chain_fetches, cycle_alerts, history_vars >>

\* The history of a symbol's alerts after one more has returned on date d.
Dispatched(h, d) ==
    [last |-> d,
     min_gap |-> IF h.last = Unset THEN h.min_gap
                 ELSE IF h.min_gap = Unset \/ d - h.last < h.min_gap THEN d - h.last
                 ELSE h.min_gap]

\* One pass of the for-signal loop.
SignalStep ==
    /\ pc = "signals"
    /\ LET signal == Head(signals)
           symbol == signal.symbol
           key == SignalKey(signal, today)
       IN  IF CapReached(signals_alerted) THEN SkipSignal("cap", << >>)
           ELSE IF AlertedThisScan(symbol) THEN SkipSignal("symbol", Tail(signals))
           ELSE IF InCooldown(symbol) THEN SkipSignal("cooldown", Tail(signals))
           ELSE IF SeenToday(key) THEN SkipSignal("duplicate", Tail(signals))
           ELSE /\ chain_fetches' = chain_fetches + 1
                /\ last_key' = key
                /\ \E chain \in ChainKinds, outcome \in SendOutcomes :
                      IF chain = "raises"
                      THEN \* pick_option_for_signal raises
                           /\ TickerFails
                           /\ gate' = "select_raised"
                           /\ UNCHANGED << scanner_vars, signals_alerted,
                                           symbols_alerted_this_scan, cycle_alerts, history_vars >>
                      ELSE IF outcome = "send_raised"
                      THEN \* send_signal_alert raises
                           /\ TickerFails
                           /\ gate' = outcome
                           /\ UNCHANGED << scanner_vars, signals_alerted,
                                           symbols_alerted_this_scan, cycle_alerts, history_vars >>
                      ELSE /\ alert_log' = alert_log (+) SetToBag({key})
                           /\ dispatch' = [dispatch EXCEPT ![symbol] = Dispatched(@, today)]
                           /\ RecordAlert(key, symbol)
                           /\ cycle_alerts' = Append(cycle_alerts, symbol)
                           /\ gate' = outcome
                           /\ signals' = Tail(signals)
                           /\ pc' = IF Tail(signals) = << >> THEN "tickers" ELSE "signals"
                           /\ UNCHANGED << current_seen_date, errors >>
    /\ UNCHANGED << settings, clock, cycles, escaped, today, tickers, harness_vars >>

\* The ticker loop ends (exhausted, or the break of the cap test); scan_once
\* returns, its locals are gone, and the worker sleeps.
ScanEnd ==
    /\ pc = "tickers"
    /\ tickers = << >> \/ CapReached(signals_alerted)
    /\ pc' = "sleep"
    /\ DropFrame
    /\ UNCHANGED << settings, clock, scanner_vars, cycles, escaped, history_vars, harness_vars >>

\* ------------------------------------------------------------------ specifications
NoInput == [daily |-> << >>, weekly |-> << >>, price |-> 0]
NoOutput == [done |-> FALSE, result |-> << >>]

SettingsSpace ==
    [SCAN_TICKERS : TickerLists,
     MAX_SIGNALS_PER_SCAN : 1..MaxCap,
     ALERT_COOLDOWN_DAYS : CooldownChoices \cup {Unset}]

IdleScanner ==
    /\ clock = 1
    /\ seen_signals = {}
    /\ current_seen_date = Unset
    /\ symbol_last_alert_date = [s \in Symbols |-> Unset]
    /\ pc = "sleep"
    /\ cycles = 0
    /\ escaped = FALSE
    /\ NoFrame
    /\ alert_log = EmptyBag
    /\ dispatch = [s \in Symbols |-> [last |-> Unset, min_gap |-> Unset]]

Init ==
    /\ settings \in SettingsSpace
    /\ IdleScanner
    /\ d_in = NoInput
    /\ d_out = NoOutput

Next == ScanStart \/ ScanStartRaises \/ TickerBegin \/ SignalStep \/ ScanEnd

Spec == Init /\ [][Next]_vars

\* The worker loop (while True: scan_once(); sleep) never stops taking steps:
\* every call it makes returns or raises, and the sleep is finite.
LiveInit ==
    /\ settings \in {c \in SettingsSpace : c.MAX_SIGNALS_PER_SCAN = 1
                                            /\ c.ALERT_COOLDOWN_DAYS \in {Unset, 0}}
    /\ IdleScanner
    /\ d_in = NoInput
    /\ d_out = NoOutput

LiveSpec == LiveInit /\ [][Next]_vars /\ WF_vars(Next)

\* The detector on every series of 3, 4 and 5 candles of CandleSet.
Series4 == {<< a, b, c, d >> : a \in CandleSet, b \in CandleSet, c \in CandleSet, d \in CandleSet}
DailySeries == Series4 \cup {Tail(x) : x \in Series4} \cup {<< HL(MaxPrice, 1) >> \o x : x \in Series4}

DetectInit ==
    /\ settings = [SCAN_TICKERS |-> << "A", "B" >>, MAX_SIGNALS_PER_SCAN |-> 1,
                   ALERT_COOLDOWN_DAYS |-> 0]
    /\ IdleScanner
    /\ d_in \in [daily : DailySeries, weekly : WeeklySeries, price : {0, MaxPrice}]
    /\ d_out = NoOutput

Detect ==
    /\ ~d_out.done
    /\ d_out' = [done |-> TRUE,
                 result |-> detect_daily_strat_signals("A", d_in.daily, d_in.weekly, d_in.price)]
    /\ UNCHANGED << settings, clock, scanner_vars, pc, cycles, escaped, cycle_vars,
                    history_vars, d_in >>

DetectSpec == DetectInit /\ [][Detect]_vars

\* classify_candle_type on every pair of candles whose high and low are in
\* 1..MaxPrice or NaN (a low above the high included).
Bounds == (1..MaxPrice) \cup {NaN}
AnyCandle == {Candle(l, h, l, h, 1) : h \in Bounds, l \in Bounds}
HarnessSettings ==
    [SCAN_TICKERS |-> << "A", "B" >>, MAX_SIGNALS_PER_SCAN |-> 1, ALERT_COOLDOWN_DAYS |-> 0]

ClassifyInit ==
    /\ settings = HarnessSettings
    /\ IdleScanner
    /\ d_in \in [current : AnyCandle, previous : AnyCandle]
    /\ d_out = NoOutput

Classify ==
    /\ ~d_out.done
    /\ d_out' = [done |-> TRUE,
                 result |-> [type |-> classify_candle_type(d_in.current, d_in.previous),
                             return |-> classify_return(d_in.current, d_in.previous)]]
    /\ UNCHANGED << settings, clock, scanner_vars, pc, cycles, escaped, cycle_vars,
                    history_vars, d_in >>

ClassifySpec == ClassifyInit /\ [][Classify]_vars

\* _calculate_risk_reward on both directions and every entry, stop and current
\* price in 0..MaxPrice or None.
OptPrice == (0..MaxPrice) \cup {Unset}

RiskRewardInit ==
    /\ settings = HarnessSettings
    /\ IdleScanner
    /\ d_in \in [direction : {"CALL", "PUT"}, entry : OptPrice, stop : OptPrice,
                  current_price : OptPrice]
    /\ d_out = NoOutput

RiskReward ==
    /\ ~d_out.done
    /\ d_out' = [done |-> TRUE,
                 result |-> calculate_risk_reward(d_in.direction, d_in.entry, d_in.stop,
                                                  d_in.current_price)]
    /\ UNCHANGED << settings, clock, scanner_vars, pc, cycles, escaped, cycle_vars,
                    history_vars, d_in >>

RiskRewardSpec == RiskRewardInit /\ [][RiskReward]_vars

\* _calculate_volume_vs_avg_pct on series of VOLUME_LOOKBACK_DAYS - 1 to
\* VOLUME_LOOKBACK_DAYS + MaxExtra candles: all of one volume, but for the latest
\* candle and at most one other candle, whose volumes are any of None and
\* 0..MaxVolume.
OptVolume == (0..MaxVolume) \cup {Unset}
VolumeCandle(v) == Candle(1, 1, 1, 1, v)
VolumeSeries ==
    {[i \in 1..n |-> VolumeCandle(IF i = n THEN t ELSE IF i = k THEN x ELSE b)] :
        << n, k >> \in {nk \in ((VOLUME_LOOKBACK_DAYS - 1)..(VOLUME_LOOKBACK_DAYS + MaxExtra))
                                \X (0..(VOLUME_LOOKBACK_DAYS + MaxExtra)) : nk[2] < nk[1]},
        b \in 1..MaxVolume, x \in OptVolume, t \in OptVolume}

VolumeInit ==
    /\ settings = HarnessSettings
    /\ IdleScanner
    /\ d_in \in [daily : VolumeSeries]
    /\ d_out = NoOutput

VolumeVsAvg ==
    /\ ~d_out.done
    /\ d_out' = [done |-> TRUE, result |-> calculate_volume_vs_avg_pct(d_in.daily)]
    /\ UNCHANGED << settings, clock, scanner_vars, pc, cycles, escaped, cycle_vars,
                    history_vars, d_in >>

VolumeSpec == VolumeInit /\ [][VolumeVsAvg]_vars

\* pick_option_for_signal as scan_once calls it (scanner.py lines 167-170), on
\* chains of up to MaxChain contracts.  A chain's contracts carry their
\* position as ticker.  The contracts are of the signal's type with every
\* combination of two expirations, four strikes and three liquidity levels
\* (open interest, bid, ask), and a contract good in all fields but one, which
\* is missing, non-numeric or out of range.
Contract(type, expiration, strike, oi, bid, ask, iv) ==
    [symbol |-> None, contract_type |-> type, expiration_date |-> expiration,
     strike_price |-> strike, open_interest |-> oi, bid_price |-> bid, ask_price |-> ask,
     implied_vol |-> iv]
Liquidity == {<< 50, 80, 100 >>, << 10, 80, 100 >>, << 50, 70, 100 >>}
RegularContracts(type) ==
    {Contract(type, e, k, q[1], q[2], q[3], Unset) :
        e \in {UtcToday + 2, UtcToday + 5}, k \in {96, 100, 104, 106}, q \in Liquidity}
OddContracts(type) ==
    {Contract(t, UtcToday + 2, 100, 50, 80, 100, Unset) :
        t \in {None, IF type = "call" THEN "put" ELSE "call"}}
    \cup {Contract(type, e, 100, 50, 80, 100, Unset) :
            e \in {Unset, UtcToday - 1, UtcToday, UtcToday + MaxExpiryDays,
                    UtcToday + MaxExpiryDays + 1}}
    \cup {Contract(type, UtcToday + 2, k, 50, 80, 100, Unset) : k \in {Unset, Bad, 94}}
    \cup {Contract(type, UtcToday + 2, 100, oi, 80, 100, Unset) : oi \in {Unset, Bad}}
    \cup {Contract(type, UtcToday + 2, 100, 50, q[1], q[2], Unset) :
            q \in {<< 60, 100 >>, << Unset, Unset >>, << Bad, 100 >>, << 80, Bad >>}}
    \cup {Contract(type, UtcToday + 2, 100, 50, 80, 100, iv) : iv \in {30, Bad}}
\* The chain of the contracts f, each with its position as ticker.
Tagged(f) == [i \in DOMAIN f |-> [f[i] EXCEPT !.symbol = ToString(i)]]
PickSignal(direction) ==
    StratSignal("A", direction, "Daily 2-1-2 continuation", 102, 98, 100)

PickInit ==
    /\ settings = HarnessSettings
    /\ IdleScanner
    /\ \E direction \in {"CALL", "PUT"}, m \in 0..MaxChain :
          \E f \in [1..m -> LET type == IF direction = "CALL" THEN "call" ELSE "put"
                             IN  RegularContracts(type) \cup OddContracts(type)] :
              d_in = [direction |-> direction, chain |-> Tagged(f)]
    /\ d_out = NoOutput

\* signal = pick_option_for_signal(signal, chain); send_signal_alert(signal):
\* the alert is dispatched unless the selection raised.
PickAndSend ==
    /\ ~d_out.done
    /\ LET picked == pick_option_for_signal(PickSignal(d_in.direction), d_in.chain)
       IN  d_out' = [done |-> TRUE,
                     result |-> [raised |-> picked.raised, signal |-> picked.signal,
                                 dispatched |-> ~picked.raised]]
    /\ UNCHANGED << settings, clock, scanner_vars, pc, cycles, escaped, cycle_vars,
                    history_vars, d_in >>

PickSpec == PickInit /\ [][PickAndSend]_vars

\* ------------------------------------------------------------------ properties
InCycle == pc # "sleep"
CycleBegins == pc = "sleep" /\ pc' = "tickers"
Returned(key) == CopiesIn(key, alert_log)
Range(seq) == {seq[i] : i \in 1..Len(seq)}
NoRepeat(seq) == \A i, j \in 1..Len(seq) : i # j => seq[i] # seq[j]
Raised == {"ticker_raised", "select_raised", "send_raised"}
Delivered == {"sent", "endpoint_error"}

\* The gates of the candidate signal at the head of the signal loop, read from
\* the state.
CapOpen == signals_alerted < settings.MAX_SIGNALS_PER_SCAN
SymbolOpen == Head(signals).symbol \notin symbols_alerted_this_scan
CooldownOpen ==
    ~ /\ settings.ALERT_COOLDOWN_DAYS > 0
      /\ symbol_last_alert_date[Head(signals).symbol] # Unset
      /\ today - symbol_last_alert_date[Head(signals).symbol] < settings.ALERT_COOLDOWN_DAYS
DedupOpen == SignalKey(Head(signals), today) \notin seen_signals

C3_CapStopsTheCycle ==
    /\ [](signals_alerted <= settings.MAX_SIGNALS_PER_SCAN)
    /\ [][(InCycle /\ signals_alerted >= settings.MAX_SIGNALS_PER_SCAN)
            => /\ tickers' = tickers \/ pc' = "sleep"
               /\ chain_fetches' = chain_fetches \/ pc' = "sleep"
               /\ alert_log' = alert_log]_vars

\* C3 witness: the cap is reached while tickers are still unvisited.
C3_Witness ==
    pc = "tickers" /\ tickers # << >> /\ signals_alerted >= settings.MAX_SIGNALS_PER_SCAN

\* C4: an exception raised while a ticker is processed is counted in errors and
\* leaves the loop at the next ticker, with the tickers after it still to be
\* visited; it does not end the scan_once call, which ends only when the list is
\* exhausted or the cap is reached.
C4_ErrorsStayInTheTicker ==
    /\ [][(InCycle /\ gate' \in Raised)
            => /\ errors' = errors + 1
               /\ pc' = "tickers"
               /\ tickers' = IF pc = "tickers" THEN Tail(tickers) ELSE tickers
               /\ escaped' = escaped
               /\ cycles' = cycles]_vars
    /\ [][(InCycle /\ pc' = "sleep")
            => tickers = << >> \/ signals_alerted >= settings.MAX_SIGNALS_PER_SCAN]_vars

\* C4 witness: after an exception on one ticker a later ticker of the same cycle
\* is alerted.
C4_Witness == errors >= 1 /\ gate \in Delivered

C6_SeenClearedOnDateChangeOnly ==
    /\ [][~(seen_signals \subseteq seen_signals')
            => CycleBegins /\ today' # current_seen_date]_vars
    /\ [][(CycleBegins /\ today' # current_seen_date)
            => seen_signals' = {} /\ current_seen_date' = today']_vars
    /\ [][current_seen_date' # current_seen_date
            => CycleBegins /\ current_seen_date' = today']_vars

\* C6 witness: a cycle has just begun on a later date than a symbol's last
\* alert, with the seen set emptied.
C6_Witness ==
    /\ pc = "tickers"
    /\ Len(tickers) = Len(settings.SCAN_TICKERS)
    /\ seen_signals = {}
    /\ \E s \in Symbols : symbol_last_alert_date[s] # Unset /\ symbol_last_alert_date[s] < today

\* C7: the option chain is fetched only for a signal that passes the cap, symbol,
\* cooldown and dedup gates; a signal is skipped by the first gate it fails in
\* that order; and a dispatched alert leaves the key in the seen set, the
\* symbol's last-alert date at the cycle's date, the symbol in the per-cycle set
\* and the alerted count one higher.
C7_GatesThenRecords ==
    [][pc = "signals"
        => /\ chain_fetches' # chain_fetches
                => CapOpen /\ SymbolOpen /\ CooldownOpen /\ DedupOpen
           /\ gate' = "cap" => ~CapOpen
           /\ gate' = "symbol" => CapOpen /\ ~SymbolOpen
           /\ gate' = "cooldown" => CapOpen /\ SymbolOpen /\ ~CooldownOpen
           /\ gate' = "duplicate" => CapOpen /\ SymbolOpen /\ CooldownOpen /\ ~DedupOpen
           /\ gate' \in Delivered
                => /\ chain_fetches' = chain_fetches + 1
                   /\ SignalKey(Head(signals), today) \in seen_signals'
                   /\ symbol_last_alert_date'[Head(signals).symbol] = today
                   /\ Head(signals).symbol \in symbols_alerted_this_scan'
                   /\ signals_alerted' = signals_alerted + 1]_vars

\* C7 witness: an alert has been dispatched and recorded while another signal
\* of the ticker waits.
C7_Witness == pc = "signals" /\ gate = "sent" /\ last_key \in seen_signals

\* C8: no symbol is alerted twice in one cycle, and the per-cycle set holds
\* exactly the symbols alerted in the current cycle (it starts empty).
C8_OneAlertPerSymbolPerCycle ==
    /\ NoRepeat(cycle_alerts)
    /\ symbols_alerted_this_scan = Range(cycle_alerts)

\* C8 witness: one symbol alerted for two signals on one date, hence in two
\* cycles.
C8_Witness ==
    \E k1, k2 \in BagToSet(alert_log) : k1 # k2 /\ k1[1] = k2[1]

\* C9: the worker loop goes on to the next scan_once call whatever the last one
\* did, and a call ended by an exception leaves the worker asleep with the seen
\* set, the recorded date and the last-alert map as they were.
C9_WorkerSurvives ==
    /\ \A n \in 0..(MaxCycles - 1) : (cycles = n) ~> (cycles = n + 1)
    /\ [][(escaped' /\ <<cycles, escaped>>' # <<cycles, escaped>>)
            => pc' = "sleep" /\ UNCHANGED scanner_vars]_vars

\* C9 witness: a call ended by an exception after an earlier cycle had alerted.
C9_Witness == escaped /\ pc = "sleep" /\ seen_signals # {}

\* The premises of the 1-2-2 continuation on the detector's input.
Bull122 ==
    /\ Len(d_in.daily) >= 4
    /\ classify_candle_type(Back(d_in.daily, 3), Back(d_in.daily, 4)) = TWO_UP
    /\ classify_candle_type(Back(d_in.daily, 2), Back(d_in.daily, 3)) = INSIDE
    /\ get_weekly_bias(d_in.weekly) = "up"
    /\ Gt(Back(d_in.daily, 1).high, Back(d_in.daily, 2).high)
Bear122 ==
    /\ Len(d_in.daily) >= 4
    /\ classify_candle_type(Back(d_in.daily, 3), Back(d_in.daily, 4)) = TWO_DOWN
    /\ classify_candle_type(Back(d_in.daily, 2), Back(d_in.daily, 3)) = INSIDE
    /\ get_weekly_bias(d_in.weekly) = "down"
    /\ Lt(Back(d_in.daily, 1).low, Back(d_in.daily, 2).low)
\* The further premises of the 2-1-2 continuation.
Bull212 ==
    /\ classify_candle_type(Back(d_in.daily, 1), Back(d_in.daily, 2)) = TWO_UP
    /\ Gt(Back(d_in.daily, 1).high, Back(d_in.daily, 3).high)
Bear212 ==
    /\ classify_candle_type(Back(d_in.daily, 1), Back(d_in.daily, 2)) = TWO_DOWN
    /\ Lt(Back(d_in.daily, 1).low, Back(d_in.daily, 3).low)
Is122(signal, direction, pattern_name, entry_level, stop_level) ==
    /\ signal.direction = direction
    /\ signal.pattern_name = pattern_name
    /\ signal.entry_level = entry_level
    /\ signal.stop_level = stop_level

C20_No212Without122 ==
    d_out.done =>
        LET s122 == detect_daily_122_signals("A", d_in.daily, d_in.weekly, d_in.price)
            s212 == detect_daily_212_signals("A", d_in.daily, d_in.weekly, d_in.price)
        IN  /\ \A i \in 1..Len(s212) :
                  \E j \in 1..Len(s122) : s122[j].direction = s212[i].direction
            /\ d_out.result # << >>
                  => d_out.result[1].pattern_name
                        \in {"Daily 1-2U continuation", "Daily 1-2D continuation"}

\* C20 witness: a bullish 2-1-2 signal has been returned behind a 1-2-2 signal,
\* the price taken from the last close.
C20_Witness ==
    /\ d_out.done
    /\ d_in.price = 0
    /\ Len(d_out.result) = 2
    /\ d_out.result[2].pattern_name = "Daily 2-1-2 continuation"
    /\ d_out.result[2].direction = "CALL"

\* The bounds of both candles are numbers.
NoNaN ==
    {d_in.current.high, d_in.current.low, d_in.previous.high, d_in.previous.low}
        \cap {NaN} = {}

\* C12 as stated: the final return of classify_candle_type is never reached.
C12_FinalReturnNeverReached ==
    d_out.done => d_out.result.return # 5

\* C12, amended: classify_candle_type returns one of the four types for every
\* pair of candles, by the priority of its rules: INSIDE exactly when the high
\* is not above and the low not below the previous ones (so also when both are
\* equal), OUTSIDE by rule 2 only when rule 1 does not hold, TWO_UP only when
\* the high was taken and the low was not, TWO_DOWN only when the low was taken
\* and the high was not; the final return is not reached when the four bounds
\* are numbers, and is reached only when one of them is NaN.
C12_TotalByPriority ==
    d_out.done =>
        LET cur == d_in.current
            prev == d_in.previous
            type == d_out.result.type
        IN  /\ type \in CandleType
            /\ type = INSIDE <=> (Le(cur.high, prev.high) /\ Ge(cur.low, prev.low))
            /\ (NoNaN /\ cur.high = prev.high /\ cur.low = prev.low) => type = INSIDE
            /\ type = TWO_UP => (Gt(cur.high, prev.high) /\ ~Le(cur.low, prev.low))
            /\ type = TWO_DOWN => (Lt(cur.low, prev.low) /\ ~Ge(cur.high, prev.high))
            /\ (NoNaN /\ type = OUTSIDE)
                  => /\ Ge(cur.high, prev.high) /\ Le(cur.low, prev.low)
                     /\ cur.high # prev.high \/ cur.low # prev.low
            /\ NoNaN => d_out.result.return # 5

\* C12 witness: a candle with the high and the low of the previous one has been
\* classified INSIDE.
C12_Witness ==
    /\ d_out.done
    /\ NoNaN
    /\ d_in.current.high = d_in.previous.high
    /\ d_in.current.low = d_in.previous.low
    /\ d_out.result.type = INSIDE

\* C13 as stated: for a CALL whose current price is at or below the stop (as
\* entry 100, stop 95, current price 90: a stop below the entry) the function
\* reports no ratio, and a reported ratio is never negative.
C13_NoRatioBelowStop ==
    d_out.done =>
        /\ (/\ d_in.direction = "CALL"
             /\ d_in.entry # Unset /\ d_in.stop # Unset /\ d_in.current_price # Unset
             /\ d_in.stop < d_in.entry
             /\ d_in.current_price <= d_in.stop)
                => ~d_out.result.defined
        /\ d_out.result.defined => d_out.result.num >= 0 /\ d_out.result.den > 0

\* The VOLUME_LOOKBACK_DAYS candles immediately before the latest one, by
\* position, and the sum of their volumes.
Window == (Len(d_in.daily) - VOLUME_LOOKBACK_DAYS)..(Len(d_in.daily) - 1)
RECURSIVE VolumeUpTo(_)
VolumeUpTo(i) ==
    IF i \notin Window THEN 0 ELSE d_in.daily[i].volume + VolumeUpTo(i - 1)
WindowVolume == VolumeUpTo(Len(d_in.daily) - 1)

\* C14: the relative volume is undefined for fewer than 21 candles and for a
\* longer series with a zero or missing volume among the 20 candles before the
\* latest; when defined it is (latest - avg) / avg * 100 with avg the mean
\* volume of exactly those 20 candles.
C14_VolumeWindow ==
    d_out.done =>
        /\ Len(d_in.daily) < VOLUME_LOOKBACK_DAYS + 1 => ~d_out.result.defined
        /\ (/\ Len(d_in.daily) >= VOLUME_LOOKBACK_DAYS + 1
             /\ \E i \in Window : d_in.daily[i].volume \in {Unset, 0})
                => ~d_out.result.defined
        /\ d_out.result.defined
                => d_out.result
                     = Ratio((Back(d_in.daily, 1).volume * VOLUME_LOOKBACK_DAYS - WindowVolume) * 100,
                             WindowVolume)

\* C14 witness: the value is defined for a series with a zero volume before the
\* window and a latest volume that differs from the window's.
C14_Witness ==
    /\ d_out.done
    /\ d_out.result.defined
    /\ d_out.result.num # 0
    /\ \E i \in 1..Len(d_in.daily) : i \notin Window /\ d_in.daily[i].volume = 0

\* C15 as stated: the relative volume is undefined whenever the latest candle's
\* volume is missing or not positive.
C15_LatestVolumePositive ==
    (d_out.done /\ Back(d_in.daily, 1).volume \in {Unset, 0}) => ~d_out.result.defined

\* The contracts of the input chain by what they pass, read from the input.
ContractsOf(seq) == {seq[i] : i \in 1..Len(seq)}
PassPrimary == ContractsOf(PrimaryFiltered(PickSignal(d_in.direction), d_in.chain))
PassRelaxed == ContractsOf(RelaxedFiltered(PickSignal(d_in.direction), d_in.chain))
Attached == {c \in ContractsOf(d_in.chain) : c.symbol = d_out.result.signal.option_ticker}

\* C16: when a contract of the chain passes all primary filters, the attached
\* contract passes the primary filters, also when a contract that passes only
\* the relaxed filters expires sooner or has its strike closer to the entry.
C16_PrimaryBeforeRelaxed ==
    (d_out.done /\ PassPrimary # {})
        => Attached # {} /\ Attached \subseteq PassPrimary

\* C16 witness: a primary contract has been attached although a contract that
\* passes only the relaxed filters comes before it in the sort order.
C16_Witness ==
    /\ d_out.done
    /\ ~d_out.result.raised
    /\ \E a \in Attached \cap PassPrimary :
          \E c \in PassRelaxed \ PassPrimary :
              KeyBefore(c, a, PickSignal(d_in.direction).entry_level)

Survivors == ContractsOf(FilteredContracts(PickSignal(d_in.direction), d_in.chain))
Dte(c) == c.expiration_date - UtcToday
Distance(c) == Abs(c.strike_price - PickSignal(d_in.direction).entry_level)

\* C18: the attached contract is a survivor with the smallest days to
\* expiration, among those with the smallest distance between strike and entry
\* level, and among those the first of the input chain.
C18_SoonestThenClosestThenFirst ==
    (d_out.done /\ Survivors # {})
        => \E i \in 1..Len(d_in.chain) :
              /\ d_in.chain[i] \in Survivors
              /\ d_out.result.signal.option_ticker = d_in.chain[i].symbol
              /\ d_out.result.signal.option_strike = d_in.chain[i].strike_price
              /\ d_out.result.signal.option_expiration = d_in.chain[i].expiration_date
              /\ \A j \in 1..Len(d_in.chain) :
                    d_in.chain[j] \in Survivors
                      => /\ Dte(d_in.chain[i]) <= Dte(d_in.chain[j])
                         /\ Dte(d_in.chain[i]) = Dte(d_in.chain[j])
                              => Distance(d_in.chain[i]) <= Distance(d_in.chain[j])
                         /\ (/\ Dte(d_in.chain[i]) = Dte(d_in.chain[j])
                              /\ Distance(d_in.chain[i]) = Distance(d_in.chain[j]))
                              => i <= j

\* C18 witness: of two survivors with the same expiration and strikes at the
\* same distance on either side of the entry level, the first has been attached.
C18_Witness ==
    /\ d_out.done
    /\ Len(d_in.chain) >= 2
    /\ d_in.chain[1] \in Survivors /\ d_in.chain[2] \in Survivors
    /\ Dte(d_in.chain[1]) = Dte(d_in.chain[2])
    /\ Distance(d_in.chain[1]) = Distance(d_in.chain[2])
    /\ d_in.chain[1].strike_price # d_in.chain[2].strike_price
    /\ d_out.result.signal.option_ticker = d_in.chain[1].symbol

\* A record with a non-numeric strike, open interest, bid or ask.
Malformed(c) ==
    Bad \in {c.strike_price, c.open_interest, c.bid_price, c.ask_price}
Without(seq, i) == SubSeq(seq, 1, i - 1) \o SubSeq(seq, i + 1, Len(seq))

\* C19: a record with a non-numeric strike, open interest, bid or ask does not
\* make the selection raise, is never attached, and the result is that of the
\* chain without the record.
C19_MalformedContractDiscarded ==
    d_out.done =>
        \A i \in 1..Len(d_in.chain) :
            Malformed(d_in.chain[i])
              => /\ d_in.chain[i] \notin Attached
                 /\ LET rest == pick_option_for_signal(PickSignal(d_in.direction),
                                                       Without(d_in.chain, i))
                    IN  /\ d_out.result.raised = rest.raised
                        /\ d_out.result.signal = rest.signal

\* C19 witness: a well-formed contract has been attached from a chain that
\* begins with a record with a non-numeric strike.
C19_Witness ==
    /\ d_out.done
    /\ ~d_out.result.raised
    /\ Len(d_in.chain) >= 2
    /\ d_in.chain[1].strike_price = Bad
    /\ d_out.result.signal.option_ticker = d_in.chain[2].symbol

\* ------------------------------------------------------------------ dates
Second212 == "Daily 2-1-2 continuation"
\* The keys of a symbol whose alert has returned on the current date.
AlertedKeysOf(s) == {key \in BagToSet(alert_log) : key[1] = s}
\* The 1-2-2 signal listed before a 2-1-2 signal has its key in the seen set.
First122Seen(symbol, direction) ==
    \E key \in seen_signals :
        key[1] = symbol /\ key[2] # Second212 /\ key[3] = direction

\* The part of C21 on a cooldown of at least 1 day: on one date at most one
\* alert of a symbol returns, and none for a 2-1-2 signal.
OncePerDateUnderCooldown ==
    settings.ALERT_COOLDOWN_DAYS >= 1
        => \A s \in Symbols :
              /\ Cardinality(AlertedKeysOf(s)) <= 1
              /\ \A key \in AlertedKeysOf(s) : Returned(key) = 1 /\ key[2] # Second212

C22_SeenKeysCarryRecordedDate ==
    /\ [](\A key \in seen_signals :
              /\ key[5] = current_seen_date
              /\ symbol_last_alert_date[key[1]] = current_seen_date)
    /\ [](InCycle => current_seen_date = today)
    /\ [][current_seen_date' # current_seen_date => seen_signals' = {}]_vars

\* C22 witness: a key is in the seen set for a symbol that was also alerted on
\* an earlier date, whose key the date change removed.
C22_Witness ==
    \E key \in seen_signals :
        /\ dispatch[key[1]].min_gap # Unset
        /\ dispatch[key[1]].min_gap >= 1
        /\ \A other \in seen_signals : other[5] = key[5]

\* C23: when the option selection or the dispatch of a signal that passed the
\* gates raises, the seen set, the last-alert dates, the per-cycle symbol set
\* and the alerted count stay as they were, the signal's key stays out of the
\* seen set with no alert logged for it (it passes the dedup gate again), and
\* the signals left for the instrument are dropped.
C23_RaiseLeavesNoRecord ==
    [][(pc = "signals" /\ gate' \in {"select_raised", "send_raised"})
        => LET key == SignalKey(Head(signals), today)
           IN  /\ CapOpen /\ SymbolOpen /\ CooldownOpen /\ DedupOpen
               /\ UNCHANGED << seen_signals, symbol_last_alert_date,
                               symbols_alerted_this_scan, signals_alerted >>
               /\ alert_log' = alert_log
               /\ key \notin seen_signals'
               /\ last_key' = key
               /\ signals' = << >>
               /\ pc' = "tickers"]_vars

\* C23 witness: the call for a 1-2-2 signal has raised in a cycle after the
\* first, the 2-1-2 signal behind it is gone, and its key is not in the seen
\* set, which holds another key.
C23_Witness ==
    /\ gate \in {"select_raised", "send_raised"}
    /\ cycles >= 2
    /\ last_key[2] = "Daily 1-2U continuation"
    /\ signals = << >>
    /\ last_key \notin seen_signals
    /\ seen_signals # {}

====
